---- MODULE Spec2Model ----
(***************************************************************************)
(* Live-chat session lifecycle of MysticTxt: the Express route handlers   *)
(* (server/routes.ts) over the drizzle storage layer (server/storage.ts). *)
(* Tables are sequences of rows in insertion order; a row's id is its     *)
(* index.  Timestamps are milliseconds of server time.                    *)
(***************************************************************************)
EXTENDS Integers, Sequences, FiniteSets, Bags, TLC

\* ---------------------------------------------------------------- bounds
MaxOrders == 2
MaxSessions == 2
MaxMessages == 2
MaxRelayed == 1
MaxNotifs == 4
MaxTime == 61000

\* ------------------------------------------------------- program constants
\* (intake?.detailsJson as any)?.chatMinutes || 5
DefaultChatMinutes == 5
SecondsPerMinute == 60
MillisPerSecond == 1000

NULL == -1000

Clients == {"c1", "c2"}
Admins == {"a1"}
Users == Clients \cup Admins
Services == {"live-chat", "tarot-reading"}
Refs == {"r1"}
TickSteps == {60000, 61000}
ChatMinutesInputs == {NULL, 1}
ChatMinutesAccepted == {NULL, 0, -1, 1}
Procs == {"p1", "p2"}

userRole(u) == IF u \in Admins THEN "admin" ELSE "client"

VARIABLES
  orders,         \* orders joined with order_intake
  sessions,       \* chat_sessions
  messages,       \* chat_messages
  notifications,  \* notifications, as a bag of rows
  liveChatEnabled,\* admin_settings["live_chat_enabled"]
  now,            \* server clock
  resp,           \* the last HTTP response written
  pc,             \* per in-flight request: the await it is suspended at
  loc             \* per in-flight request: its parameters and locals

vars == <<orders, sessions, messages, notifications, liveChatEnabled, now, resp, pc, loc>>

\* -------------------------------------------------------------------- JS
\* a || b for numbers: 0 and undefined are falsy
OrElse(a, b) == IF a = NULL \/ a = 0 THEN b ELSE a

\* ------------------------------------------------------------ storage.ts
Notif(userId, type, orderId) == [userId |-> userId, type |-> type, orderId |-> orderId]

AddNotifs(N, rows) == N (+) SetToBag(rows)

NotifCount(N) == BagCardinality(N)

getChatSessionByOrderId(S, orderId) ==
  LET hits == {i \in DOMAIN S : S[i].orderId = orderId}
  IN IF hits = {} THEN NULL ELSE CHOOSE i \in hits : \A j \in hits : i <= j

getActiveChatSession(S) ==
  LET hits == {i \in DOMAIN S : S[i].status = "active"}
  IN IF hits = {} THEN NULL ELSE CHOOSE i \in hits : \A j \in hits : i <= j

\* .orderBy(desc(chatSessions.createdAt)) over the rows with the given ids
RECURSIVE OrderByCreatedAtDesc(_, _)
OrderByCreatedAtDesc(S, ids) ==
  IF ids = {} THEN <<>>
  ELSE LET first == CHOOSE i \in ids : \A j \in ids :
                      \/ S[i].createdAt > S[j].createdAt
                      \/ S[i].createdAt = S[j].createdAt /\ i <= j
       IN <<first>> \o OrderByCreatedAtDesc(S, ids \ {first})

\* .orderBy(chatMessages.createdAt) over the rows with the given ids
RECURSIVE OrderByCreatedAt(_, _)
OrderByCreatedAt(M, ids) ==
  IF ids = {} THEN <<>>
  ELSE LET first == CHOOSE i \in ids : \A j \in ids :
                      \/ M[i].createdAt < M[j].createdAt
                      \/ M[i].createdAt = M[j].createdAt /\ i <= j
       IN <<first>> \o OrderByCreatedAt(M, ids \ {first})

\* the ids of the ringing sessions, in the order of the query
getRingingChatSessions(S) ==
  OrderByCreatedAtDesc(S, {i \in DOMAIN S : S[i].status = "ringing"})

\* getChatMessages ordering by createdAt descending
getChatMessagesNewestFirst(M, sid) ==
  LET ids == OrderByCreatedAtDesc(M, {i \in DOMAIN M : M[i].sessionId = sid})
  IN [k \in DOMAIN ids |-> M[ids[k]]]

\* the rows of chat_messages of one session, in the order of the query
getChatMessages(M, sid) ==
  LET ids == OrderByCreatedAt(M, {i \in DOMAIN M : M[i].sessionId = sid})
  IN [k \in DOMAIN ids |-> M[ids[k]]]

\* getLiveChatAvailability asking for an active session before the setting
getLiveChatAvailabilityActiveFirst(S, enabled) ==
  IF getActiveChatSession(S) # NULL THEN "busy"
  ELSE IF enabled # "true" THEN "offline"
  ELSE "online"

getLiveChatAvailability(S, enabled) ==
  IF enabled # "true" THEN "offline"
  ELSE IF getActiveChatSession(S) # NULL THEN "busy"
  ELSE "online"

\* the accept update without its where clause
acceptChatSessionRowsAll(S, sid, t) ==
  [i \in DOMAIN S |-> [S[i] EXCEPT !.status = "active", !.acceptedAt = t]]

\* db.update(chatSessions).set({status: "active", acceptedAt}).where(id = sessionId)
acceptChatSessionRows(S, sid, t) ==
  IF sid \in DOMAIN S
  THEN [S EXCEPT ![sid] = [@ EXCEPT !.status = "active", !.acceptedAt = t]]
  ELSE S

\* db.update(chatSessions).set({status: "ended", endedAt}).where(id = sessionId)
endChatSessionRows(S, sid, t) ==
  IF sid \in DOMAIN S
  THEN [S EXCEPT ![sid] = [@ EXCEPT !.status = "ended", !.endedAt = t]]
  ELSE S

\* db.update(orders).set({status: "delivered", deliveredAt}).where(id = orderId)
markOrderDelivered(O, oid, t) ==
  IF oid \in DOMAIN O
  THEN [O EXCEPT ![oid] = [@ EXCEPT !.status = "delivered", !.deliveredAt = t]]
  ELSE O

\* db.update(orders).set({status: "paid", paymentReference, paidAt}).where(id = orderId)
markOrderPaid(O, oid, ref, t) ==
  IF oid \in DOMAIN O
  THEN [O EXCEPT ![oid] = [@ EXCEPT !.status = "paid", !.paymentReference = ref, !.paidAt = t]]
  ELSE O

\* the row inserted into chat_sessions for a paid live-chat order
newChatSession(O, oid, t) ==
  [orderId |-> oid, clientId |-> O[oid].clientId,
   purchasedMinutes |-> OrElse(O[oid].chatMinutes, DefaultChatMinutes),
   status |-> "ringing", acceptedAt |-> NULL, endedAt |-> NULL, createdAt |-> t]

ringingNotifs(oid) == {Notif(a, "live_chat_ringing", oid) : a \in Admins}

newOrderNotifs(oid) == {Notif(a, "new_order", oid) : a \in Admins}

acceptedNotifs(session) == {Notif(session.clientId, "chat_accepted", session.orderId)}

endedNotifs(session) == {Notif(session.clientId, "chat_ended", session.orderId)}

HasNotifFor(N, oid) == \E n \in BagToSet(N) : n.orderId = oid

Response(code, msg) == [code |-> code, msg |-> msg]

Init ==
  /\ orders = <<>>
  /\ sessions = <<>>
  /\ messages = <<>>
  /\ notifications = EmptyBag
  /\ liveChatEnabled = "false"
  /\ now = 0
  /\ resp = Response(0, "none")
  /\ pc = [p \in Procs |-> "idle"]
  /\ loc = [p \in Procs |-> NULL]

\* String.prototype.trim on a body given as a sequence of characters
RECURSIVE TrimLeft(_)
TrimLeft(b) == IF b # <<>> /\ Head(b) = " " THEN TrimLeft(Tail(b)) ELSE b

RECURSIVE TrimRight(_)
TrimRight(b) ==
  IF b # <<>> /\ b[Len(b)] = " " THEN TrimRight(SubSeq(b, 1, Len(b) - 1)) ELSE b

Trim(b) == TrimRight(TrimLeft(b))

\* a request without a message field
MissingBody == <<"undefined">>

\* !message: the body is missing or the empty string, not trimmed
IsBlankUntrimmed(b) == b = MissingBody \/ b = <<>>

\* !message?.trim(): the body is missing or trims to the empty string
IsBlank(b) == IF b = MissingBody THEN TRUE ELSE Trim(b) = <<>>

\* the tables are bounded: an insert needs room for its rows
NotifRoom(rows) == NotifCount(notifications) + Cardinality(rows) <= MaxNotifs

InsertRoom(oid) == Len(sessions) < MaxSessions /\ NotifRoom(ringingNotifs(oid))

\* ------------------------------------------------ live-chat/[orderId].tsx
Max(a, b) == IF a >= b THEN a ELSE b

\* getElapsedSeconds: Math.floor((end - start) / 1000), 0 before acceptance
getElapsedSeconds(session, t) ==
  IF session.acceptedAt = NULL THEN 0
  ELSE LET end == IF session.endedAt # NULL THEN session.endedAt ELSE t
       IN (end - session.acceptedAt) \div MillisPerSecond

\* remainingSeconds = Math.max(0, totalSeconds - elapsed)
remainingSeconds(session, t) ==
  Max(0, OrElse(session.purchasedMinutes, 0) * SecondsPerMinute - getElapsedSeconds(session, t))

\* -------------------------------------------------------------- routes.ts
\* updateOrderPayment without the existing-session lookup
UpdateOrderPaymentNoLookup(oid, ref) ==
  IF oid \notin DOMAIN orders
  THEN UNCHANGED <<orders, sessions, notifications>>
  ELSE
    /\ orders' = markOrderPaid(orders, oid, ref, now)
    /\ IF orders[oid].serviceSlug = "live-chat"
       THEN /\ InsertRoom(oid)
            /\ sessions' = Append(sessions, newChatSession(orders, oid, now))
            /\ notifications' = AddNotifs(notifications, ringingNotifs(oid))
       ELSE UNCHANGED <<sessions, notifications>>

\* updateOrderPayment creating the session only while the advisor is online
UpdateOrderPaymentGated(oid, ref) ==
  IF oid \notin DOMAIN orders
  THEN UNCHANGED <<orders, sessions, notifications>>
  ELSE
    /\ orders' = markOrderPaid(orders, oid, ref, now)
    /\ IF orders[oid].serviceSlug = "live-chat"
       THEN IF /\ getChatSessionByOrderId(sessions, oid) = NULL
               /\ getLiveChatAvailability(sessions, liveChatEnabled) = "online"
            THEN /\ InsertRoom(oid)
                 /\ sessions' = Append(sessions, newChatSession(orders, oid, now))
                 /\ notifications' = AddNotifs(notifications, ringingNotifs(oid))
            ELSE UNCHANGED <<sessions, notifications>>
       ELSE /\ UNCHANGED sessions
            /\ IF HasNotifFor(notifications, oid)
               THEN UNCHANGED notifications
               ELSE /\ NotifRoom(newOrderNotifs(oid))
                    /\ notifications' = AddNotifs(notifications, newOrderNotifs(oid))

\* updateOrderPayment, run to completion
UpdateOrderPayment(oid, ref) ==
  IF oid \notin DOMAIN orders
  THEN UNCHANGED <<orders, sessions, notifications>>
  ELSE
    /\ orders' = markOrderPaid(orders, oid, ref, now)
    /\ IF orders[oid].serviceSlug = "live-chat"
       THEN IF getChatSessionByOrderId(sessions, oid) = NULL
            THEN /\ InsertRoom(oid)
                 /\ sessions' = Append(sessions, newChatSession(orders, oid, now))
                 /\ notifications' = AddNotifs(notifications, ringingNotifs(oid))
            ELSE UNCHANGED <<sessions, notifications>>
       ELSE /\ UNCHANGED sessions
            /\ IF HasNotifFor(notifications, oid)
               THEN UNCHANGED notifications
               ELSE /\ NotifRoom(newOrderNotifs(oid))
                    /\ notifications' = AddNotifs(notifications, newOrderNotifs(oid))

\* POST /api/orders without the availability check
CreateOrderUngated(u, svc, cm) ==
  /\ Len(orders) < MaxOrders
  /\ orders' = Append(orders,
       [clientId |-> u, serviceSlug |-> svc, status |-> "pending",
        paymentReference |-> "none", paidAt |-> NULL, deliveredAt |-> NULL,
        chatMinutes |-> OrElse(cm, NULL)])
  /\ resp' = Response(200, "ok")
  /\ UNCHANGED <<sessions, messages, notifications, liveChatEnabled, now, pc, loc>>

\* POST /api/orders
CreateOrder(u, svc, cm) ==
  /\ Len(orders) < MaxOrders
  /\ LET availability == getLiveChatAvailability(sessions, liveChatEnabled)
     IN IF svc = "live-chat" /\ availability = "offline"
        THEN /\ resp' = Response(400, "offline")
             /\ UNCHANGED orders
        ELSE IF svc = "live-chat" /\ availability = "busy"
        THEN /\ resp' = Response(400, "busy")
             /\ UNCHANGED orders
        ELSE /\ orders' = Append(orders,
                  [clientId |-> u, serviceSlug |-> svc, status |-> "pending",
                   paymentReference |-> "none", paidAt |-> NULL, deliveredAt |-> NULL,
                   chatMinutes |-> OrElse(cm, NULL)])
             /\ resp' = Response(200, "ok")
  /\ UNCHANGED <<sessions, messages, notifications, liveChatEnabled, now, pc, loc>>

\* GET /api/live-chat/availability
GetAvailability ==
  /\ resp' = Response(200, getLiveChatAvailability(sessions, liveChatEnabled))
  /\ UNCHANGED <<orders, sessions, messages, notifications, liveChatEnabled, now, pc, loc>>

\* the setting route closing the active sessions when the advisor goes offline
SetLiveChatClosing(u, enabled) ==
  /\ IF userRole(u) # "admin"
     THEN /\ resp' = Response(403, "admin_required")
          /\ UNCHANGED <<liveChatEnabled, sessions>>
     ELSE /\ liveChatEnabled' = (IF enabled THEN "true" ELSE "false")
          /\ sessions' = [i \in DOMAIN sessions |->
               IF ~enabled /\ sessions[i].status = "active"
               THEN [sessions[i] EXCEPT !.status = "ended", !.endedAt = now]
               ELSE sessions[i]]
          /\ resp' = Response(200, "ok")
  /\ UNCHANGED <<orders, messages, notifications, now, pc, loc>>

\* PUT /api/admin/settings/live-chat
SetLiveChat(u, enabled) ==
  /\ IF userRole(u) # "admin"
     THEN /\ resp' = Response(403, "admin_required")
          /\ UNCHANGED liveChatEnabled
     ELSE /\ liveChatEnabled' = (IF enabled THEN "true" ELSE "false")
          /\ resp' = Response(200, "ok")
  /\ UNCHANGED <<orders, sessions, messages, notifications, now, pc, loc>>

\* POST /api/payments/webhook
PaymentWebhook(event, oid, ref) ==
  /\ IF event = "charge.success"
     THEN UpdateOrderPayment(oid, ref)
     ELSE UNCHANGED <<orders, sessions, notifications>>
  /\ resp' = Response(200, "success")
  /\ UNCHANGED <<messages, liveChatEnabled, now, pc, loc>>

\* GET /api/payments/callback
PaymentCallback(oid, ref, verified) ==
  /\ IF verified
     THEN UpdateOrderPayment(oid, ref)
     ELSE UNCHANGED <<orders, sessions, notifications>>
  /\ resp' = Response(200, "page")
  /\ UNCHANGED <<messages, liveChatEnabled, now, pc, loc>>

\* GET /api/chat/session/:orderId
FetchSession(oid) ==
  /\ IF /\ getChatSessionByOrderId(sessions, oid) = NULL
        /\ oid \in DOMAIN orders
        /\ orders[oid].status = "paid"
        /\ orders[oid].serviceSlug = "live-chat"
     THEN /\ InsertRoom(oid)
          /\ sessions' = Append(sessions, newChatSession(orders, oid, now))
          /\ notifications' = AddNotifs(notifications, ringingNotifs(oid))
     ELSE UNCHANGED <<sessions, notifications>>
  /\ resp' = Response(200, "ok")
  /\ UNCHANGED <<orders, messages, liveChatEnabled, now, pc, loc>>

\* the accept route without the active-session check
AcceptRouteNoBusyCheck(u, sid) ==
  /\ IF userRole(u) # "admin"
     THEN /\ resp' = Response(403, "admin_required")
          /\ UNCHANGED <<sessions, notifications>>
     ELSE IF sid \notin DOMAIN sessions
     THEN /\ resp' = Response(404, "session_not_found")
          /\ UNCHANGED <<sessions, notifications>>
     ELSE /\ NotifRoom(acceptedNotifs(sessions[sid]))
          /\ sessions' = acceptChatSessionRows(sessions, sid, now)
          /\ notifications' = AddNotifs(notifications, acceptedNotifs(sessions[sid]))
          /\ resp' = Response(200, "ok")
  /\ UNCHANGED <<orders, messages, liveChatEnabled, now, pc, loc>>

\* POST /api/admin/chat/:sessionId/accept
AcceptRoute(u, sid) ==
  /\ IF userRole(u) # "admin"
     THEN /\ resp' = Response(403, "admin_required")
          /\ UNCHANGED <<sessions, notifications>>
     ELSE IF getActiveChatSession(sessions) # NULL
     THEN /\ resp' = Response(400, "already_active")
          /\ UNCHANGED <<sessions, notifications>>
     ELSE IF sid \notin DOMAIN sessions
     THEN /\ resp' = Response(404, "session_not_found")
          /\ UNCHANGED <<sessions, notifications>>
     ELSE /\ NotifRoom(acceptedNotifs(sessions[sid]))
          /\ sessions' = acceptChatSessionRows(sessions, sid, now)
          /\ notifications' = AddNotifs(notifications, acceptedNotifs(sessions[sid]))
          /\ resp' = Response(200, "ok")
  /\ UNCHANGED <<orders, messages, liveChatEnabled, now, pc, loc>>

\* the end route without the session-not-found answer
EndRouteNoNotFound(u, sid) ==
  /\ IF userRole(u) # "admin"
     THEN /\ resp' = Response(403, "admin_required")
          /\ UNCHANGED <<orders, sessions, notifications>>
     ELSE IF sid \notin DOMAIN sessions
     THEN /\ resp' = Response(200, "ok")
          /\ UNCHANGED <<orders, sessions, notifications>>
     ELSE /\ NotifRoom(endedNotifs(sessions[sid]))
          /\ sessions' = endChatSessionRows(sessions, sid, now)
          /\ orders' = markOrderDelivered(orders, sessions[sid].orderId, now)
          /\ notifications' = AddNotifs(notifications, endedNotifs(sessions[sid]))
          /\ resp' = Response(200, "ok")
  /\ UNCHANGED <<messages, liveChatEnabled, now, pc, loc>>

\* POST /api/admin/chat/:sessionId/end
EndRoute(u, sid) ==
  /\ IF userRole(u) # "admin"
     THEN /\ resp' = Response(403, "admin_required")
          /\ UNCHANGED <<orders, sessions, notifications>>
     ELSE IF sid \notin DOMAIN sessions
     THEN /\ resp' = Response(404, "session_not_found")
          /\ UNCHANGED <<orders, sessions, notifications>>
     ELSE /\ NotifRoom(endedNotifs(sessions[sid]))
          /\ sessions' = endChatSessionRows(sessions, sid, now)
          /\ orders' = markOrderDelivered(orders, sessions[sid].orderId, now)
          /\ notifications' = AddNotifs(notifications, endedNotifs(sessions[sid]))
          /\ resp' = Response(200, "ok")
  /\ UNCHANGED <<messages, liveChatEnabled, now, pc, loc>>

\* updateOrderPayment when db.insert(notifications) throws: the order update and
\* the session insert before it stay committed
UpdateOrderPaymentSinkDown(oid, ref) ==
  IF oid \notin DOMAIN orders
  THEN UNCHANGED <<orders, sessions, notifications>>
  ELSE
    /\ orders' = markOrderPaid(orders, oid, ref, now)
    /\ UNCHANGED notifications
    /\ IF /\ orders[oid].serviceSlug = "live-chat"
          /\ getChatSessionByOrderId(sessions, oid) = NULL
       THEN /\ Len(sessions) < MaxSessions
            /\ sessions' = Append(sessions, newChatSession(orders, oid, now))
       ELSE UNCHANGED sessions

\* POST /api/payments/webhook, charge.success, when db.insert(notifications)
\* throws: the catch block answers {status: "received"}
PaymentWebhookSinkDown(oid, ref) ==
  /\ UpdateOrderPaymentSinkDown(oid, ref)
  /\ resp' = IF /\ oid \in DOMAIN orders
                /\ \/ /\ orders[oid].serviceSlug = "live-chat"
                      /\ getChatSessionByOrderId(sessions, oid) = NULL
                   \/ /\ orders[oid].serviceSlug # "live-chat"
                      /\ ~HasNotifFor(notifications, oid)
             THEN Response(200, "received")
             ELSE Response(200, "success")
  /\ UNCHANGED <<messages, liveChatEnabled, now, pc, loc>>

\* the accept route when db.insert(notifications) throws inside
\* acceptChatSession: the update is committed, the catch block answers 500
AcceptRouteSinkDown(u, sid) ==
  /\ IF userRole(u) # "admin"
     THEN /\ resp' = Response(403, "admin_required")
          /\ UNCHANGED sessions
     ELSE IF getActiveChatSession(sessions) # NULL
     THEN /\ resp' = Response(400, "already_active")
          /\ UNCHANGED sessions
     ELSE IF sid \notin DOMAIN sessions
     THEN /\ resp' = Response(404, "session_not_found")
          /\ UNCHANGED sessions
     ELSE /\ sessions' = acceptChatSessionRows(sessions, sid, now)
          /\ resp' = Response(500, "failed_to_accept")
  /\ UNCHANGED <<orders, messages, notifications, liveChatEnabled, now, pc, loc>>

\* the end route when db.insert(notifications) throws inside endChatSession:
\* both updates are committed, the catch block answers 500
EndRouteSinkDown(u, sid) ==
  /\ IF userRole(u) # "admin"
     THEN /\ resp' = Response(403, "admin_required")
          /\ UNCHANGED <<orders, sessions>>
     ELSE IF sid \notin DOMAIN sessions
     THEN /\ resp' = Response(404, "session_not_found")
          /\ UNCHANGED <<orders, sessions>>
     ELSE /\ sessions' = endChatSessionRows(sessions, sid, now)
          /\ orders' = markOrderDelivered(orders, sessions[sid].orderId, now)
          /\ resp' = Response(500, "failed_to_end")
  /\ UNCHANGED <<messages, notifications, liveChatEnabled, now, pc, loc>>

\* POST /api/chat/:sessionId/messages
SendMessage(u, sid, body) ==
  /\ IF IsBlank(body)
     THEN /\ resp' = Response(400, "message_required")
          /\ UNCHANGED messages
     ELSE IF sid \notin DOMAIN sessions
     THEN /\ resp' = Response(500, "failed")
          /\ UNCHANGED messages
     ELSE /\ Len(messages) < MaxMessages
          /\ messages' = Append(messages,
               [sessionId |-> sid, senderId |-> u, senderRole |-> userRole(u),
                message |-> Trim(body), createdAt |-> now])
          /\ resp' = Response(200, "ok")
  /\ UNCHANGED <<orders, sessions, notifications, liveChatEnabled, now, pc, loc>>

\* the clock with a timer that ends the sessions whose time has run out
TickWithExpiry(d) ==
  /\ now + d <= MaxTime
  /\ now' = now + d
  /\ sessions' = [i \in DOMAIN sessions |->
       IF sessions[i].status = "active" /\ remainingSeconds(sessions[i], now + d) = 0
       THEN [sessions[i] EXCEPT !.status = "ended", !.endedAt = now + d]
       ELSE sessions[i]]
  /\ UNCHANGED <<orders, messages, notifications, liveChatEnabled, resp, pc, loc>>

\* GET /api/chat/:sessionId/messages: the body of the answer is
\* getChatMessages(messages, sid)
ListMessages(u, sid) ==
  /\ resp' = Response(200, "messages")
  /\ UNCHANGED <<orders, sessions, messages, notifications, liveChatEnabled, now, pc, loc>>

Tick(d) ==
  /\ now + d <= MaxTime
  /\ now' = now + d
  /\ UNCHANGED <<orders, sessions, messages, notifications, liveChatEnabled, resp, pc, loc>>

\* ------------------------------------------- handlers, one await at a time
\* A request in flight is suspended at an await; other requests run meanwhile.
Idle(p) == pc[p] = "idle"

Goto(p, label, locals) ==
  /\ pc' = [pc EXCEPT ![p] = label]
  /\ loc' = [loc EXCEPT ![p] = locals]

Done(p) == Goto(p, "idle", NULL)

\* accept route: const existing = await getActiveChatSession()
AcceptCheck(p, sid) ==
  /\ Idle(p)
  /\ IF getActiveChatSession(sessions) # NULL
     THEN /\ resp' = Response(400, "already_active")
          /\ Done(p)
     ELSE /\ Goto(p, "accept_update", sid)
          /\ UNCHANGED resp
  /\ UNCHANGED <<orders, sessions, messages, notifications, liveChatEnabled, now>>

\* accept route: const session = await acceptChatSession(sessionId)
AcceptUpdate(p) ==
  /\ pc[p] = "accept_update"
  /\ LET sid == loc[p]
     IN IF sid \notin DOMAIN sessions
        THEN /\ resp' = Response(404, "session_not_found")
             /\ UNCHANGED <<sessions, notifications>>
        ELSE /\ NotifRoom(acceptedNotifs(sessions[sid]))
             /\ sessions' = acceptChatSessionRows(sessions, sid, now)
             /\ notifications' = AddNotifs(notifications, acceptedNotifs(sessions[sid]))
             /\ resp' = Response(200, "ok")
  /\ Done(p)
  /\ UNCHANGED <<orders, messages, liveChatEnabled, now>>

\* updateOrderPayment: await db.update(orders).set({status: "paid", ...})
PayUpdate(p, oid, ref) ==
  /\ Idle(p)
  /\ orders' = markOrderPaid(orders, oid, ref, now)
  /\ IF oid \in DOMAIN orders
     THEN /\ Goto(p, "pay_lookup", oid)
          /\ UNCHANGED resp
     ELSE /\ Done(p)
          /\ resp' = Response(200, "success")
  /\ UNCHANGED <<sessions, messages, notifications, liveChatEnabled, now>>

\* updateOrderPayment: await getChatSessionByOrderId(order.id), or the
\* notifications of a non-chat order
PayLookup(p) ==
  /\ pc[p] = "pay_lookup"
  /\ LET oid == loc[p]
         missing == IF orders[oid].serviceSlug = "live-chat"
                    THEN getChatSessionByOrderId(sessions, oid) = NULL
                    ELSE ~HasNotifFor(notifications, oid)
     IN IF missing
        THEN /\ Goto(p, "pay_insert", oid)
             /\ UNCHANGED resp
        ELSE /\ Done(p)
             /\ resp' = Response(200, "success")
  /\ UNCHANGED <<orders, sessions, messages, notifications, liveChatEnabled, now>>

\* updateOrderPayment: await db.insert(chatSessions) and the admins' notifications
PayInsert(p) ==
  /\ pc[p] = "pay_insert"
  /\ LET oid == loc[p]
     IN IF orders[oid].serviceSlug = "live-chat"
        THEN /\ InsertRoom(oid)
             /\ sessions' = Append(sessions, newChatSession(orders, oid, now))
             /\ notifications' = AddNotifs(notifications, ringingNotifs(oid))
        ELSE /\ NotifRoom(newOrderNotifs(oid))
             /\ notifications' = AddNotifs(notifications, newOrderNotifs(oid))
             /\ UNCHANGED sessions
  /\ resp' = Response(200, "success")
  /\ Done(p)
  /\ UNCHANGED <<orders, messages, liveChatEnabled, now>>

\* ringing route: const sessions = await getRingingChatSessions()
RingingQuery(p, u) ==
  /\ Idle(p)
  /\ IF userRole(u) # "admin"
     THEN /\ resp' = Response(403, "admin_required")
          /\ Done(p)
     ELSE /\ Goto(p, "ringing_reply", getRingingChatSessions(sessions))
          /\ UNCHANGED resp
  /\ UNCHANGED <<orders, sessions, messages, notifications, liveChatEnabled, now>>

\* ringing route: res.json(enriched)
RingingReply(p) ==
  /\ pc[p] = "ringing_reply"
  /\ resp' = Response(200, "ok")
  /\ Done(p)
  /\ UNCHANGED <<orders, sessions, messages, notifications, liveChatEnabled, now>>

\* session route: let session = await getChatSessionByOrderId(orderId)
FetchLookup(p, oid) ==
  /\ Idle(p)
  /\ IF getChatSessionByOrderId(sessions, oid) = NULL
     THEN /\ Goto(p, "fetch_order", oid)
          /\ UNCHANGED resp
     ELSE /\ Done(p)
          /\ resp' = Response(200, "ok")
  /\ UNCHANGED <<orders, sessions, messages, notifications, liveChatEnabled, now>>

\* session route: const order = await getOrderById(orderId)
FetchOrder(p) ==
  /\ pc[p] = "fetch_order"
  /\ LET oid == loc[p]
     IN IF /\ oid \in DOMAIN orders
           /\ orders[oid].status = "paid"
           /\ orders[oid].serviceSlug = "live-chat"
        THEN /\ Goto(p, "fetch_insert", oid)
             /\ UNCHANGED resp
        ELSE /\ Done(p)
             /\ resp' = Response(200, "ok")
  /\ UNCHANGED <<orders, sessions, messages, notifications, liveChatEnabled, now>>

\* session route: await db.insert(chatSessions) and the admins' notifications
FetchInsert(p) ==
  /\ pc[p] = "fetch_insert"
  /\ InsertRoom(loc[p])
  /\ sessions' = Append(sessions, newChatSession(orders, loc[p], now))
  /\ notifications' = AddNotifs(notifications, ringingNotifs(loc[p]))
  /\ resp' = Response(200, "ok")
  /\ Done(p)
  /\ UNCHANGED <<orders, messages, liveChatEnabled, now>>

SessionIds == 1..MaxSessions
OrderIds == 1..MaxOrders
Bodies == {MissingBody, <<>>, <<" ">>, <<" ", "h">>}
Events == {"charge.success", "charge.failed"}

Next ==
  \/ \E u \in Clients, cm \in ChatMinutesInputs : CreateOrder(u, "live-chat", cm)
  \/ \E u \in Clients : CreateOrder(u, "tarot-reading", NULL)
  \/ \E u \in Users, e \in BOOLEAN : SetLiveChat(u, e)
  \/ \E ev \in Events, oid \in OrderIds, ref \in Refs : PaymentWebhook(ev, oid, ref)
  \/ \E oid \in OrderIds, ref \in Refs, ok \in BOOLEAN : PaymentCallback(oid, ref, ok)
  \/ \E oid \in OrderIds : FetchSession(oid)
  \/ \E u \in Users, sid \in SessionIds : AcceptRoute(u, sid)
  \/ \E u \in Users, sid \in SessionIds : EndRoute(u, sid)
  \/ \E d \in TickSteps : Tick(d)

Spec == Init /\ [][Next]_vars

\* the lifecycle with the message relay, for live-chat orders
NextRelay ==
  \/ \E u \in Clients, cm \in ChatMinutesInputs \ {NULL} : CreateOrder(u, "live-chat", cm)
  \/ \E u \in Admins : SetLiveChat(u, TRUE)
  \/ \E oid \in OrderIds, ref \in Refs : PaymentWebhook("charge.success", oid, ref)
  \/ \E u \in Admins, sid \in SessionIds : AcceptRoute(u, sid)
  \/ \E u \in Admins, sid \in SessionIds : EndRoute(u, sid)
  \/ \E u \in Users, sid \in SessionIds, b \in Bodies :
       /\ IsBlank(b) \/ sid \notin DOMAIN sessions \/ Len(messages) < MaxRelayed
       /\ SendMessage(u, sid, b)
  \/ \E d \in TickSteps : Tick(d)

SpecRelay == Init /\ [][NextRelay]_vars

\* concurrent requests: the handlers that read before they write, interleaved
\* at their awaits
NextRace ==
  \/ \E u \in Clients, svc \in Services : CreateOrder(u, svc, NULL)
  \/ \E u \in Admins : SetLiveChat(u, TRUE)
  \/ \E p \in Procs, oid \in OrderIds, ref \in Refs : PayUpdate(p, oid, ref)
  \/ \E p \in Procs : PayLookup(p)
  \/ \E p \in Procs : PayInsert(p)
  \/ \E p \in Procs, oid \in OrderIds : FetchLookup(p, oid)
  \/ \E p \in Procs : FetchOrder(p)
  \/ \E p \in Procs : FetchInsert(p)
  \/ \E p \in Procs, sid \in SessionIds : AcceptCheck(p, sid)
  \/ \E p \in Procs : AcceptUpdate(p)
  \/ \E u \in Admins, sid \in SessionIds : EndRoute(u, sid)

SpecRace == Init /\ [][NextRace]_vars

\* the advisor's queue: orders carrying every chatMinutes value the order
\* schema lets through, and the list of ringing sessions
NextQueue ==
  \/ \E u \in Clients, cm \in ChatMinutesAccepted : CreateOrder(u, "live-chat", cm)
  \/ \E u \in Admins : SetLiveChat(u, TRUE)
  \/ \E oid \in OrderIds, ref \in Refs : PaymentWebhook("charge.success", oid, ref)
  \/ \E u \in Admins, sid \in SessionIds : AcceptRoute(u, sid)
  \/ \E p \in Procs, u \in Users : RingingQuery(p, u)
  \/ \E p \in Procs : RingingReply(p)
  \/ \E d \in TickSteps : Tick(d)

SpecQueue == Init /\ [][NextQueue]_vars

\* the message history of the sessions of one client
NextHistory ==
  \/ \E cm \in ChatMinutesInputs \ {NULL} : CreateOrder("c1", "live-chat", cm)
  \/ \E u \in Admins : SetLiveChat(u, TRUE)
  \/ \E oid \in OrderIds, ref \in Refs : PaymentWebhook("charge.success", oid, ref)
  \/ \E u \in Admins, sid \in SessionIds : AcceptRoute(u, sid)
  \/ \E u \in Admins, sid \in SessionIds : EndRoute(u, sid)
  \/ \E u \in Admins \cup {"c1"}, sid \in SessionIds, b \in Bodies : SendMessage(u, sid, b)
  \/ \E u \in Users, sid \in SessionIds : ListMessages(u, sid)
  \/ \E d \in TickSteps : Tick(d)

SpecHistory == Init /\ [][NextHistory]_vars

\* the availability setting toggled freely around the lifecycle and the relay
NextToggle ==
  \/ \E u \in Clients, cm \in ChatMinutesInputs \ {NULL} : CreateOrder(u, "live-chat", cm)
  \/ \E u \in Admins, e \in BOOLEAN : SetLiveChat(u, e)
  \/ \E oid \in OrderIds, ref \in Refs : PaymentWebhook("charge.success", oid, ref)
  \/ \E u \in Admins, sid \in SessionIds : AcceptRoute(u, sid)
  \/ \E u \in Admins, sid \in SessionIds : EndRoute(u, sid)
  \/ \E u \in Users, sid \in SessionIds, b \in Bodies : SendMessage(u, sid, b)

SpecToggle == Init /\ [][NextToggle]_vars

\* the billing clock running over sessions, some of them paid for while the
\* notifications table refused the insert
NextExpiry ==
  \/ \E u \in Clients, cm \in ChatMinutesInputs \ {NULL} : CreateOrder(u, "live-chat", cm)
  \/ \E u \in Admins : SetLiveChat(u, TRUE)
  \/ \E oid \in OrderIds, ref \in Refs : PaymentWebhook("charge.success", oid, ref)
  \/ \E oid \in OrderIds, ref \in Refs : PaymentWebhookSinkDown(oid, ref)
  \/ \E u \in Admins, sid \in SessionIds : AcceptRoute(u, sid)
  \/ \E u \in Admins, sid \in SessionIds : EndRoute(u, sid)
  \/ \E d \in TickSteps : Tick(d)

SpecExpiry == Init /\ [][NextExpiry]_vars

\* the advisor's desk: availability reads, and the lifecycle with a
\* notifications table that can refuse an insert
NextDesk ==
  \/ \E u \in Clients, cm \in ChatMinutesInputs \ {NULL} : CreateOrder(u, "live-chat", cm)
  \/ \E u \in Admins, e \in BOOLEAN : SetLiveChat(u, e)
  \/ GetAvailability
  \/ \E oid \in OrderIds, ref \in Refs : PaymentWebhook("charge.success", oid, ref)
  \/ \E oid \in OrderIds, ref \in Refs : PaymentWebhookSinkDown(oid, ref)
  \/ \E u \in Admins, sid \in SessionIds : AcceptRoute(u, sid)
  \/ \E u \in Admins, sid \in SessionIds : AcceptRouteSinkDown(u, sid)
  \/ \E u \in Admins, sid \in SessionIds : EndRoute(u, sid)
  \/ \E u \in Admins, sid \in SessionIds : EndRouteSinkDown(u, sid)

SpecDesk == Init /\ [][NextDesk]_vars

\* ----------------------------------------------------------------- claims
ActiveSessions == {i \in DOMAIN sessions : sessions[i].status = "active"}

SessionsOf(oid) == {i \in DOMAIN sessions : sessions[i].orderId = oid}

StatusRank(st) == CASE st = "ringing" -> 0 [] st = "active" -> 1 [] OTHER -> 2

Refused(r) == r.code >= 400

\* C1: in every reachable state at most one chat session has status active,
\* whatever the interleaving of concurrent Accept requests on distinct ringing
\* sessions.
C1_Exclusivity == Cardinality(ActiveSessions) <= 1

\* C2: in every reachable state no order has two chat sessions, whatever the
\* interleaving of payment confirmations and session fetches for the order.
C2_OneSessionPerOrder == \A oid \in OrderIds : Cardinality(SessionsOf(oid)) <= 1

\* C3: a payment confirmation (webhook or verified callback) for an order that
\* already has a session creates no session, changes no field of any session
\* and writes no notification.
C3_IdempotentCreate ==
  [][\A oid \in OrderIds, ref \in Refs :
       /\ PaymentWebhook("charge.success", oid, ref) \/ PaymentCallback(oid, ref, TRUE)
       /\ SessionsOf(oid) # {}
       => /\ sessions' = sessions
          /\ notifications' = notifications]_vars

\* C3 witness: an order was confirmed again after its session had ended.
C3_Witness ==
  \E i \in DOMAIN sessions :
    /\ sessions[i].status = "ended"
    /\ sessions[i].endedAt # NULL
    /\ Cardinality(SessionsOf(sessions[i].orderId)) = 1
    /\ orders[sessions[i].orderId].paidAt > sessions[i].endedAt

\* C4: a session is created ringing and its status never moves backwards
\* along ringing -> active -> ended.
C4_ForwardOnly ==
  [][/\ \A i \in DOMAIN sessions :
          StatusRank(sessions'[i].status) >= StatusRank(sessions[i].status)
     /\ \A i \in DOMAIN sessions' \ DOMAIN sessions : sessions'[i].status = "ringing"]_vars

\* C5: Accept on a session whose status is active or ended is refused (the
\* refusal the claim calls InvalidTransition) and leaves the session's status,
\* acceptedAt and endedAt as they were, also when no session is active.
C5_AcceptNonRinging ==
  [][\A u \in Admins, sid \in SessionIds :
       /\ AcceptRoute(u, sid)
       /\ sid \in DOMAIN sessions
       /\ sessions[sid].status \in {"active", "ended"}
       => /\ Refused(resp')
          /\ sessions'[sid] = sessions[sid]]_vars

\* C6: End on a session that is already ended is refused, does not re-stamp
\* endedAt and writes no notification.
C6_EndEnded ==
  [][\A u \in Admins, sid \in SessionIds :
       /\ EndRoute(u, sid)
       /\ sid \in DOMAIN sessions
       /\ sessions[sid].status = "ended"
       => /\ Refused(resp')
          /\ sessions'[sid].endedAt = sessions[sid].endedAt
          /\ notifications' = notifications]_vars

\* C7: once a session that was active has ended and its order is delivered, a
\* later End on it neither marks the parent order again nor re-stamps its
\* deliveredAt.
C7_DeliveredOnce ==
  [][\A u \in Admins, sid \in SessionIds :
       /\ EndRoute(u, sid)
       /\ sid \in DOMAIN sessions
       /\ sessions[sid].status = "ended"
       /\ sessions[sid].acceptedAt # NULL
       /\ orders[sessions[sid].orderId].status = "delivered"
       => orders' = orders]_vars

\* C8: declining a ringing session ends it with acceptedAt still null and
\* leaves the parent order's status as it was (paid, not delivered).
C8_DeclineKeepsOrder ==
  [][\A u \in Admins, sid \in SessionIds :
       /\ EndRoute(u, sid)
       /\ sid \in DOMAIN sessions
       /\ sessions[sid].status = "ringing"
       => /\ sessions'[sid].status = "ended"
          /\ sessions'[sid].acceptedAt = NULL
          /\ orders'[sessions[sid].orderId].status = orders[sessions[sid].orderId].status]_vars

\* C9: a message is appended only while its session's status is active.
C9_SendOnlyWhileActive ==
  [][Len(messages') > Len(messages)
       => sessions[messages'[Len(messages')].sessionId].status = "active"]_vars

\* C10: no message is appended to an active session whose remaining billing
\* time is 0.
C10_SendOnlyWithTimeLeft ==
  [][Len(messages') > Len(messages)
       => LET session == sessions[messages'[Len(messages')].sessionId]
          IN session.status = "active" => remainingSeconds(session, now) > 0]_vars

TotalSeconds(session) == session.purchasedMinutes * SecondsPerMinute

ExpiredActive(i) ==
  /\ sessions[i].status = "active"
  /\ remainingSeconds(sessions[i], now) = 0

\* C11: the availability read answers offline whenever the setting is off
\* (also while a session is active), busy when the setting is on and some
\* session is active, and online exactly when the setting is on and no session
\* is active; ringing and ended sessions never make it busy.
C11_Availability ==
  [][GetAvailability
       => /\ resp'.code = 200
          /\ liveChatEnabled # "true" => resp'.msg = "offline"
          /\ liveChatEnabled = "true" /\ ActiveSessions # {} => resp'.msg = "busy"
          /\ resp'.msg = "busy" => ActiveSessions # {}
          /\ resp'.msg = "online" <=> (liveChatEnabled = "true" /\ ActiveSessions = {})]_vars

\* C11 witness: availability was read as offline while a session was active.
C11_Witness ==
  /\ resp = Response(200, "offline")
  /\ ActiveSessions # {}

\* C12: a live-chat order creation attempted while availability is offline or
\* busy is rejected with an error naming the reason and creates no order;
\* creating an order for another service is not gated by availability.
C12_GatedPurchase ==
  [][/\ \A u \in Clients, cm \in ChatMinutesInputs :
          CreateOrder(u, "live-chat", cm)
          => /\ liveChatEnabled # "true"
                => resp' = Response(400, "offline") /\ orders' = orders
             /\ liveChatEnabled = "true" /\ ActiveSessions # {}
                => resp' = Response(400, "busy") /\ orders' = orders
             /\ liveChatEnabled = "true" /\ ActiveSessions = {}
                => Len(orders') = Len(orders) + 1
     /\ \A u \in Clients :
          CreateOrder(u, "tarot-reading", NULL)
          => /\ Len(orders') = Len(orders) + 1
             /\ resp'.code = 200]_vars

\* C12 witness: a purchase was rejected as busy while a session was active and
\* the order table had room.
C12_Witness ==
  /\ resp = Response(400, "busy")
  /\ ActiveSessions # {}
  /\ Len(orders) < MaxOrders

C14_BillingBounds ==
  [][\A i \in DOMAIN sessions :
       /\ remainingSeconds(sessions[i], now) >= 0
       /\ remainingSeconds(sessions[i], now) <= TotalSeconds(sessions[i])
       /\ (/\ sessions[i].acceptedAt # NULL
           /\ sessions[i].endedAt = NULL
           /\ now = sessions[i].acceptedAt + TotalSeconds(sessions[i]) * MillisPerSecond)
          => remainingSeconds(sessions[i], now) = 0
       /\ \A d \in TickSteps :
            Tick(d) => remainingSeconds(sessions'[i], now') <= remainingSeconds(sessions[i], now)]_vars

\* C15: Accept on a ringing session while another session is active answers
\* AlreadyBusy and changes no session and no notification.
C15_AcceptWhileBusy ==
  [][\A u \in Admins, sid \in SessionIds :
       /\ AcceptRoute(u, sid)
       /\ sid \in DOMAIN sessions
       /\ sessions[sid].status = "ringing"
       /\ ActiveSessions # {}
       => /\ resp' = Response(400, "already_active")
          /\ sessions' = sessions
          /\ notifications' = notifications]_vars

\* C15 witness: Accept was answered AlreadyBusy with one session active and
\* another still ringing, never accepted.
C15_Witness ==
  /\ resp = Response(400, "already_active")
  /\ \E i, j \in DOMAIN sessions :
       /\ sessions[j].status = "active"
       /\ sessions[i].status = "ringing"
       /\ sessions[i].acceptedAt = NULL

\* C16: in every reachable state a ringing session has neither acceptedAt nor
\* endedAt, an active session has acceptedAt and no endedAt, and endedAt is
\* set exactly on ended sessions.
C16_TimestampConsistency ==
  \A i \in DOMAIN sessions :
    /\ sessions[i].status = "ringing"
       => sessions[i].acceptedAt = NULL /\ sessions[i].endedAt = NULL
    /\ sessions[i].status = "active"
       => sessions[i].acceptedAt # NULL /\ sessions[i].endedAt = NULL
    /\ sessions[i].status = "ended" <=> sessions[i].endedAt # NULL

\* C17: once a session's acceptedAt is set no later operation changes it.
C17_AcceptedAtOnce ==
  [][\A i \in DOMAIN sessions :
       sessions[i].acceptedAt # NULL
       => sessions'[i].acceptedAt = sessions[i].acceptedAt]_vars

\* C18: when the notifications insert fails during the payment confirmation,
\* Accept or End, the handler still answers success and the transition stays
\* committed.
C18_SinkFailureSwallowed ==
  [][/\ \A oid \in OrderIds, ref \in Refs :
          PaymentWebhookSinkDown(oid, ref) /\ oid \in DOMAIN orders
          => /\ resp'.code = 200
             /\ orders'[oid].status = "paid"
     /\ \A u \in Admins, sid \in SessionIds :
          AcceptRouteSinkDown(u, sid) /\ sid \in DOMAIN sessions /\ ActiveSessions = {}
          => /\ resp'.code = 200
             /\ sessions'[sid].status = "active"
     /\ \A u \in Admins, sid \in SessionIds :
          EndRouteSinkDown(u, sid) /\ sid \in DOMAIN sessions
          => /\ resp'.code = 200
             /\ sessions'[sid].status = "ended"]_vars

\* C19: a session leaves status active only by an End request; while an active
\* session with no time left has not been ended, availability is busy when the
\* setting is on and Accept of any other session answers AlreadyBusy; once no
\* session is active, Accept of a ringing session succeeds.
C19_NoAutomaticExpiry ==
  [][/\ \A i \in DOMAIN sessions :
          sessions[i].status = "active" /\ sessions'[i].status # "active"
          => /\ sessions'[i].status = "ended"
             /\ \E u \in Admins : EndRoute(u, i)
     /\ \A i \in DOMAIN sessions :
          ExpiredActive(i) /\ liveChatEnabled = "true"
          => getLiveChatAvailability(sessions, liveChatEnabled) = "busy"
     /\ \A u \in Admins, sid \in SessionIds :
          AcceptRoute(u, sid) /\ (\E i \in DOMAIN sessions : i # sid /\ ExpiredActive(i))
          => /\ resp' = Response(400, "already_active")
             /\ sessions' = sessions
     /\ \A u \in Admins, sid \in SessionIds :
          /\ AcceptRoute(u, sid)
          /\ sid \in DOMAIN sessions
          /\ sessions[sid].status = "ringing"
          /\ ActiveSessions = {}
          => /\ resp'.code = 200
             /\ sessions'[sid].status = "active"]_vars

\* C19 witness: a session was ended only after its purchased time had run out,
\* and another session was accepted once it had ended.
C19_Witness ==
  \E i, j \in DOMAIN sessions :
    /\ sessions[i].status = "ended"
    /\ sessions[i].acceptedAt # NULL
    /\ sessions[i].endedAt - sessions[i].acceptedAt >= TotalSeconds(sessions[i]) * MillisPerSecond
    /\ sessions[j].status = "active"
    /\ sessions[j].endedAt = NULL
    /\ sessions[j].createdAt < sessions[i].endedAt
    /\ sessions[j].acceptedAt >= sessions[i].endedAt

\* C20: an End request by the session's own client moves the active session to
\* ended.
C20_ClientCanEnd ==
  [][\A u \in Clients, sid \in SessionIds :
       /\ EndRoute(u, sid)
       /\ sid \in DOMAIN sessions
       /\ sessions[sid].status = "active"
       /\ sessions[sid].clientId = u
       => sessions'[sid].status = "ended"]_vars

RingingSessions == {i \in DOMAIN sessions : sessions[i].status = "ringing"}

MessagesOf(M, sid) == {k \in DOMAIN M : M[k].sessionId = sid}

IsPrefix(a, b) == Len(a) <= Len(b) /\ \A k \in DOMAIN a : a[k] = b[k]

OnlySpaces(b) == \A k \in DOMAIN b : b[k] = " "

OrderRank(st) == CASE st = "pending" -> 0 [] st = "paid" -> 1 [] OTHER -> 2

NewNotifs == {n \in BagToSet(notifications') : CopiesIn(n, notifications') > CopiesIn(n, notifications)}

\* C21: the list of ringing sessions holds exactly the sessions whose status
\* is ringing, oldest first by creation time.
C21_RingingOldestFirst ==
  [][\A p \in Procs :
       pc[p] = "idle" /\ pc'[p] = "ringing_reply"
       => LET list == loc'[p]
          IN /\ {list[k] : k \in DOMAIN list} = RingingSessions
             /\ Len(list) = Cardinality(RingingSessions)
             /\ \A a, b \in DOMAIN list :
                  a < b => sessions[list[a]].createdAt <= sessions[list[b]].createdAt]_vars

\* C22: the message list of a session holds all the messages appended to it
\* and only those, in ascending creation order, whatever the session's status;
\* no step changes or removes a stored message, so the list after a step
\* extends the list before it.  (The lists are those of the empty table at
\* first and can differ only across a step that changes the table.)
C22_HistoryPersists ==
  [][messages' # messages
       => /\ \A k \in DOMAIN messages : k \in DOMAIN messages' /\ messages'[k] = messages[k]
          /\ \A sid \in SessionIds :
               LET list == getChatMessages(messages', sid)
               IN /\ Len(list) = Cardinality(MessagesOf(messages', sid))
                  /\ \A k \in MessagesOf(messages', sid) : \E a \in DOMAIN list : list[a] = messages'[k]
                  /\ \A a \in DOMAIN list : list[a].sessionId = sid
                  /\ \A a, b \in DOMAIN list : a < b => list[a].createdAt <= list[b].createdAt
                  /\ IsPrefix(getChatMessages(messages, sid), list)]_vars

\* C22 witness: an ended session lists two messages, the second one sent later
\* than the first.
C22_Witness ==
  \E sid \in DOMAIN sessions :
    /\ sessions[sid].status = "ended"
    /\ Len(getChatMessages(messages, sid)) = 2
    /\ getChatMessages(messages, sid)[1].createdAt < getChatMessages(messages, sid)[2].createdAt

\* C23: Accept (with no session active) or End on a session id that does not
\* exist answers NotFound and changes no session, no order and no notification.
C23_UnknownSession ==
  [][\A u \in Admins, sid \in SessionIds :
       sid \notin DOMAIN sessions
       => /\ AcceptRoute(u, sid) /\ ActiveSessions = {}
             => /\ resp' = Response(404, "session_not_found")
                /\ UNCHANGED <<sessions, orders, notifications>>
          /\ EndRoute(u, sid)
             => /\ resp' = Response(404, "session_not_found")
                /\ UNCHANGED <<sessions, orders, notifications>>]_vars

\* C23 witness: NotFound was answered while a ringing session existed under
\* another id.
C23_Witness ==
  /\ resp = Response(404, "session_not_found")
  /\ Len(sessions) = 1
  /\ sessions[1].status = "ringing"

\* C24: Send with a body that is missing, empty or only whitespace answers
\* EmptyMessage and appends nothing, whatever the session's status; no stored
\* message body is empty.
C24_EmptyMessage ==
  [][/\ \A u \in Users, sid \in SessionIds, b \in Bodies :
          (b = MissingBody \/ OnlySpaces(b)) /\ SendMessage(u, sid, b)
          => /\ resp' = Response(400, "message_required")
             /\ messages' = messages
     /\ \A k \in DOMAIN messages' : messages'[k].message # <<>>]_vars

\* C24 witness: EmptyMessage was answered while a session had ended and no
\* message was stored.
C24_Witness ==
  /\ resp = Response(400, "message_required")
  /\ messages = <<>>
  /\ \E i \in DOMAIN sessions : sessions[i].status = "ended"

\* C25: every session's purchasedMinutes is greater than 0, whatever
\* chatMinutes value the order carried.
C25_PurchasedMinutesPositive ==
  \A i \in DOMAIN sessions : sessions[i].purchasedMinutes > 0

\* C26: a successful Accept changes only the target session's status and
\* acceptedAt; the other sessions, the messages, the setting and the orders
\* stay as they were and exactly one chat_accepted notification is written,
\* to the session's client.
C26_AcceptFrame ==
  [][\A u \in Admins, sid \in SessionIds :
       /\ AcceptRoute(u, sid)
       /\ sid \in DOMAIN sessions
       /\ sessions[sid].status = "ringing"
       /\ ActiveSessions = {}
       => /\ sessions' = [sessions EXCEPT ![sid] = [@ EXCEPT !.status = "active", !.acceptedAt = now]]
          /\ UNCHANGED <<messages, liveChatEnabled, orders>>
          /\ notifications' = notifications (+)
               SetToBag({Notif(sessions[sid].clientId, "chat_accepted", sessions[sid].orderId)})]_vars

\* C26 witness: one session was accepted and carries its one notification
\* while another session is still ringing, never accepted.
C26_Witness ==
  \E i, j \in DOMAIN sessions :
    /\ sessions[i].status = "active"
    /\ sessions[i].endedAt = NULL
    /\ CopiesIn(Notif(sessions[i].clientId, "chat_accepted", sessions[i].orderId), notifications) = 1
    /\ sessions[j].status = "ringing"
    /\ sessions[j].acceptedAt = NULL
    /\ sessions[j].createdAt < sessions[i].acceptedAt

\* C27: declining a ringing session writes the client a notification of
\* another kind than the chat_ended one written when an active session ends.
C27_DeclineNotification ==
  [][\A u \in Admins, sid \in SessionIds :
       /\ EndRoute(u, sid)
       /\ sid \in DOMAIN sessions
       /\ sessions[sid].status = "ringing"
       => /\ NewNotifs # {}
          /\ \A n \in NewNotifs :
               /\ n.userId = sessions[sid].clientId
               /\ n.type # "chat_ended"]_vars

\* C28: an order's status never moves backwards along pending -> paid ->
\* delivered, and a payment confirmation for a delivered order changes neither
\* its paidAt nor its paymentReference.
C28_OrderForwardOnly ==
  [][\A oid \in DOMAIN orders :
       /\ OrderRank(orders'[oid].status) >= OrderRank(orders[oid].status)
       /\ orders[oid].status = "delivered"
          => /\ orders'[oid].paidAt = orders[oid].paidAt
             /\ orders'[oid].paymentReference = orders[oid].paymentReference]_vars

\* C29: toggling the setting changes only the setting, and Accept, End, Send
\* and the payment confirmation have their outcome whether it is on or off.
C29_ToggleFrame ==
  [][/\ \A u \in Users, e \in BOOLEAN :
          SetLiveChat(u, e) => UNCHANGED <<orders, sessions, messages, notifications>>
     /\ \A u \in Admins, sid \in SessionIds :
          AcceptRoute(u, sid) /\ sid \in RingingSessions /\ ActiveSessions = {}
          => resp'.code = 200 /\ sessions'[sid].status = "active"
     /\ \A u \in Admins, sid \in SessionIds :
          AcceptRoute(u, sid) /\ ActiveSessions # {}
          => resp' = Response(400, "already_active") /\ sessions' = sessions
     /\ \A u \in Admins, sid \in SessionIds :
          EndRoute(u, sid) /\ sid \in DOMAIN sessions
          => resp'.code = 200 /\ sessions'[sid].status = "ended"
     /\ \A u \in Users, sid \in SessionIds, b \in Bodies :
          sid \in DOMAIN sessions /\ b # MissingBody /\ ~OnlySpaces(b) /\ SendMessage(u, sid, b)
          => resp'.code = 200 /\ Len(messages') = Len(messages) + 1
     /\ \A oid \in OrderIds, ref \in Refs :
          PaymentWebhook("charge.success", oid, ref) /\ oid \in DOMAIN orders
          => /\ orders'[oid].status = "paid"
             /\ \E i \in DOMAIN sessions' : sessions'[i].orderId = oid]_vars

\* C29 witness: with the setting off a session is still active, another is
\* ringing, and the last request, an Accept, was answered as it is with the
\* setting on.
C29_Witness ==
  /\ liveChatEnabled = "false"
  /\ resp = Response(400, "already_active")
  /\ ActiveSessions # {}
  /\ RingingSessions # {}

\* C30: a message is appended to a session only by the session's own client
\* or by an admin, and the stored sender role is the caller's role.
C30_RelayIsolation ==
  [][Len(messages') > Len(messages)
       => LET m == messages'[Len(messages')]
          IN /\ m.senderId = sessions[m.sessionId].clientId \/ m.senderId \in Admins
             /\ m.senderRole = userRole(m.senderId)]_vars

====
